---- MODULE Spec2Model ----
(***************************************************************************)
(* Model of generator_searcher (src/main.cpp): the mutex/condition-variable *)
(* Container, the Generator thread that pushes Messages into it, and the    *)
(* Searcher thread that pops them and correlates them against its time      *)
(* bounded _buffer.                                                         *)
(***************************************************************************)
EXTENDS Integers, Sequences, FiniteSets, TLC

\* ---------------------------------------------------------------- bounds
NumProducers == 2       \* threads that call Container::push in SpecContainer
MaxPush == 3            \* push calls started in one behaviour
NumPhones == 2          \* distinct phone_number values
NumLogins == 2          \* distinct login values
MaxSpurious == 1        \* spurious wake-ups of condition_variable::wait
TicksPerSec == 2        \* steady_clock resolution: ticks in one second
MaxBuf == 3             \* longest arbitrary _buffer of SpecSearch

\* ------------------------------------------------------ program constants
Delay == 5              \* Searcher::_delay, seconds

MaxClock == (Delay + 1) * TicksPerSec

Producers == 1..NumProducers
Generators == {1}
Consumer == 0
NoThread == -1
Messages == [phone_number : 1..NumPhones, login : 1..NumLogins]

VARIABLES
    queue,          \* Container::_container, front first
    mutex,          \* owner of Container::_mutex, NoThread when free
    cvWaiters,      \* threads suspended in Container::_cv.wait
    spurious,       \* spurious wake-ups so far
    ppc,            \* position of each producer thread
    pmsg,           \* the Message each producer is pushing
    nPush,          \* push calls started so far
    cpc,            \* position of the consumer thread
    cret,           \* where the consumer continues when pop returns
    cmsg,           \* msg, the value pop returned
    ctime,          \* time, the clock value read at line 180
    etime,          \* time of remove_expired, the clock value read at line 126
    found,          \* found_it as an index into _buffer, 0 for end()
    buffer,         \* Searcher::_buffer, front first, <<timestamp, Message>>
    clock,          \* std::chrono::steady_clock, in ticks
    terminate,      \* Searcher::_terminate_flag
    genTerminate,   \* Generator::_terminate_flag
    mpc,            \* position of main
    calls,          \* history: <<producer, Message>> per push call
    pushed,         \* history: Messages in the order line 52 appended them
    popped,         \* history: Messages in the order pop returned them
    nExpired,       \* history: entries erased by remove_expired
    nErased,        \* history: entries erased by the latest remove_expired
    nMatched,       \* history: matches reported
    waited,         \* history: the current pop call has suspended in wait
    ids,            \* history: for each entry of _buffer, the number of the
                    \* pop that returned its Message
    expiredIds      \* history: the entries remove_expired has erased

vars == <<queue, mutex, cvWaiters, spurious, ppc, pmsg, nPush, cpc, cret, cmsg,
          ctime, etime, found, buffer, clock, terminate, genTerminate, mpc,
          calls, pushed, popped, nExpired, nErased, nMatched, waited, ids,
          expiredIds>>

containerVars == <<queue, mutex, cvWaiters, spurious>>
producerVars == <<ppc, pmsg, nPush>>
consumerVars == <<cpc, cret, cmsg, ctime, etime, found, buffer>>
mainVars == <<terminate, genTerminate, mpc>>
historyVars == <<calls, pushed, popped, nExpired, nErased, nMatched, waited,
                 ids, expiredIds>>

\* ------------------------------------------------------------- Container
\* a queue that pushes at the head
EnqueueFront(qu, m) == <<m>> \o qu

\* std::queue::push
Enqueue(qu, m) == Append(qu, m)

\* std::queue::front
Front(qu) == Head(qu)

\* a pop that leaves the head in place
DequeueKeep(qu) == qu

\* std::queue::pop
Dequeue(qu) == Tail(qu)

\* a push that notifies nobody
NotifyNone(waiters) == waiters

\* std::condition_variable::notify_one
NotifyOne(waiters) ==
    IF waiters = {} THEN {} ELSE waiters \ {CHOOSE t \in waiters : TRUE}

\* a wait that suspends without releasing the mutex
WaitKeep(owner) == owner

\* the owner of the mutex while its holder is suspended in wait
WaitRelease(owner) == NoThread

\* a predicate that never lets wait return
WaitNever(qu) == FALSE

\* the predicate of _cv.wait
WaitPredicate(qu) == qu # <<>>

Init ==
    /\ queue = <<>>
    /\ mutex = NoThread
    /\ cvWaiters = {}
    /\ spurious = 0
    /\ ppc = [p \in Producers |-> "loop"]
    /\ pmsg = [p \in Producers |-> CHOOSE m \in Messages : TRUE]
    /\ nPush = 0
    /\ cpc = "loop"
    /\ cret = "loop"
    /\ cmsg = CHOOSE m \in Messages : TRUE
    /\ ctime = 0
    /\ etime = 0
    /\ found = 0
    /\ buffer = <<>>
    /\ clock = 0
    /\ terminate = FALSE
    /\ genTerminate = FALSE
    /\ mpc = "sleep"
    /\ calls = <<>>
    /\ pushed = <<>>
    /\ popped = <<>>
    /\ nExpired = 0
    /\ nErased = 0
    /\ nMatched = 0
    /\ waited = FALSE
    /\ ids = <<>>
    /\ expiredIds = {}

\* ------------------------------------------------------- producer thread
\* Generator loop: test the flag, build a Message and call push. The phone
\* number ("...0" + i % 7) and the login ("login_" + rand() % 10) are any
\* value of Messages
GeneratorLoop(p) ==
    /\ ppc[p] = "loop"
    /\ IF genTerminate
       THEN /\ ppc' = [ppc EXCEPT ![p] = "done"]
            /\ UNCHANGED <<pmsg, nPush, calls>>
       ELSE /\ nPush < MaxPush
            /\ \E m \in Messages :
                  /\ pmsg' = [pmsg EXCEPT ![p] = m]
                  /\ calls' = Append(calls, <<p, m>>)
            /\ nPush' = nPush + 1
            /\ ppc' = [ppc EXCEPT ![p] = "push_lock"]
    /\ UNCHANGED <<containerVars, consumerVars, clock, mainVars, pushed,
                   popped, nExpired, nErased, nMatched, ids, expiredIds,
                   waited>>

\* push: std::lock_guard lock(_mutex)
PushLock(p) ==
    /\ ppc[p] = "push_lock"
    /\ mutex = NoThread
    /\ mutex' = p
    /\ ppc' = [ppc EXCEPT ![p] = "push_append"]
    /\ UNCHANGED <<queue, cvWaiters, spurious, pmsg, nPush, consumerVars,
                   clock, mainVars, historyVars>>

\* push: _container.push(message)
PushAppend(p) ==
    /\ ppc[p] = "push_append"
    /\ queue' = Enqueue(queue, pmsg[p])
    /\ pushed' = Append(pushed, pmsg[p])
    /\ ppc' = [ppc EXCEPT ![p] = "push_notify"]
    /\ UNCHANGED <<mutex, cvWaiters, spurious, pmsg, nPush, consumerVars,
                   clock, mainVars, calls, popped, nExpired, nErased,
                   nMatched, ids, expiredIds, waited>>

\* push: _cv.notify_one()
PushNotify(p) ==
    /\ ppc[p] = "push_notify"
    /\ cvWaiters' = NotifyOne(cvWaiters)
    /\ ppc' = [ppc EXCEPT ![p] = "push_unlock"]
    /\ UNCHANGED <<queue, mutex, spurious, pmsg, nPush, consumerVars, clock,
                   mainVars, historyVars>>

\* push: the lock_guard releases the mutex, push returns, the loop sleeps
PushUnlock(p) ==
    /\ ppc[p] = "push_unlock"
    /\ mutex' = NoThread
    /\ ppc' = [ppc EXCEPT ![p] = "loop"]
    /\ UNCHANGED <<queue, cvWaiters, spurious, pmsg, nPush, consumerVars,
                   clock, mainVars, historyVars>>

Producer(p) ==
    \/ GeneratorLoop(p)
    \/ PushLock(p)
    \/ PushAppend(p)
    \/ PushNotify(p)
    \/ PushUnlock(p)

\* ------------------------------------------------------- Container::pop
\* pop: std::unique_lock lock(_mutex)
PopLock ==
    /\ cpc = "pop_lock"
    /\ mutex = NoThread
    /\ mutex' = Consumer
    /\ cpc' = "pop_wait"
    /\ UNCHANGED <<queue, cvWaiters, spurious, producerVars, cret, cmsg,
                   ctime, etime, found, buffer, clock, mainVars,
                   historyVars>>

\* pop: _cv.wait(lock, pred) is while (!pred()) wait(lock): it tests the
\* predicate under the mutex; if it fails the thread releases the mutex and
\* suspends; a notification (or, MaxSpurious times, nothing at all) wakes it,
\* and it takes the mutex again and tests again
PopWait ==
    /\ cpc \in {"pop_wait", "pop_blocked"}
    /\ IF cpc = "pop_wait"
       THEN IF WaitPredicate(queue)
            THEN /\ cpc' = "pop_take"
                 /\ UNCHANGED <<mutex, cvWaiters, spurious, waited>>
            ELSE /\ cpc' = "pop_blocked"
                 /\ mutex' = WaitRelease(mutex)
                 /\ cvWaiters' = cvWaiters \cup {Consumer}
                 /\ waited' = TRUE
                 /\ UNCHANGED spurious
       ELSE IF Consumer \in cvWaiters
            THEN /\ spurious < MaxSpurious
                 /\ spurious' = spurious + 1
                 /\ cvWaiters' = cvWaiters \ {Consumer}
                 /\ UNCHANGED <<mutex, cpc, waited>>
            ELSE /\ mutex = NoThread
                 /\ mutex' = Consumer
                 /\ cpc' = "pop_wait"
                 /\ UNCHANGED <<cvWaiters, spurious, waited>>
    /\ UNCHANGED <<queue, producerVars, cret, cmsg, ctime, etime, found,
                   buffer, clock, mainVars, calls, pushed, popped, nExpired,
                   nErased, nMatched, ids, expiredIds>>

\* pop: result = std::move(_container.front()); _container.pop()
PopTake ==
    /\ cpc = "pop_take"
    /\ cmsg' = Front(queue)
    /\ queue' = Dequeue(queue)
    /\ popped' = Append(popped, Front(queue))
    /\ cpc' = "pop_unlock"
    /\ UNCHANGED <<mutex, cvWaiters, spurious, producerVars, cret, ctime,
                   etime, found, buffer, clock, mainVars, calls, pushed,
                   nExpired, nErased, nMatched, ids, expiredIds, waited>>

\* pop: lock.unlock(); return result
PopUnlock ==
    /\ cpc = "pop_unlock"
    /\ mutex' = NoThread
    /\ cpc' = cret
    /\ UNCHANGED <<queue, cvWaiters, spurious, producerVars, cret, cmsg,
                   ctime, etime, found, buffer, clock, mainVars,
                   historyVars>>

Pop ==
    \/ PopLock
    \/ PopWait
    \/ PopTake
    \/ PopUnlock

\* a consumer thread that calls pop() directly, as the class allows
CallPop ==
    /\ cpc = "loop"
    /\ cpc' = "pop_lock"
    /\ cret' = "loop"
    /\ waited' = FALSE
    /\ UNCHANGED <<containerVars, producerVars, cmsg, ctime, etime, found,
                   buffer, clock, mainVars, calls, pushed, popped, nExpired,
                   nErased, nMatched, ids, expiredIds>>

NextContainer ==
    \/ \E p \in Producers : Producer(p)
    \/ CallPop
    \/ Pop

SpecContainer == Init /\ [][NextContainer]_vars

\* the steps of push after its call, and the steps of pop after its call
PushSteps(p) == PushLock(p) \/ PushAppend(p) \/ PushNotify(p) \/ PushUnlock(p)

\* SpecContainer with the scheduler's fairness: a thread inside push or pop
\* that can take a step eventually takes one; nobody is obliged to call
LiveContainer ==
    /\ SpecContainer
    /\ \A p \in Producers : WF_vars(PushSteps(p))
    /\ WF_vars(Pop)

\* ------------------------------------------------------------ properties
IsPrefix(s, t) == Len(s) <= Len(t) /\ \A i \in 1..Len(s) : s[i] = t[i]

Count(s, m) == Cardinality({i \in 1..Len(s) : s[i] = m})

CalledMessages == [i \in 1..Len(calls) |-> calls[i][2]]

OnlyCaller(p) == \A i \in 1..Len(calls) : calls[i][1] = p

\* C1: FIFO delivery. When all push calls so far were made by one producer,
\* the values pop has returned so far are, in order, the first values that
\* producer passed to push.
C1_Fifo ==
    \A p \in Producers : OnlyCaller(p) => IsPrefix(popped, CalledMessages)

C1_Witness ==
    /\ OnlyCaller(1)
    /\ Len(popped) >= 2
    /\ popped[1] # popped[2]
    /\ Len(queue) >= 1

\* C2: no loss, no duplication. In every state each Message has been appended
\* by push exactly as often as it has been returned by pop or is in the queue.
C2_Conservation ==
    \A m \in Messages : Count(pushed, m) = Count(popped, m) + Count(queue, m)

C2_Witness ==
    /\ \E i, j \in 1..Len(calls) : calls[i][1] # calls[j][1]
    /\ Len(popped) >= 1
    /\ Len(queue) >= 1
    /\ \E m \in Messages : Count(pushed, m) >= 2

\* C3: blocking pop without lost wake-up. pop on an empty queue suspends in
\* wait; pop never removes from an empty queue and returns the head it
\* removes; a suspended consumer returns from pop once the queue holds an item.
C3_BlockingPop ==
    /\ [](cpc = "pop_take" => queue # <<>>)
    /\ [][cpc = "pop_wait" /\ queue = <<>> /\ cpc' # cpc
            => cpc' = "pop_blocked" /\ Consumer \in cvWaiters']_vars
    /\ [][cpc = "pop_take" /\ cpc' = "pop_unlock"
            => cmsg' = Head(queue) /\ queue' = Tail(queue)]_vars
    /\ (cpc = "pop_blocked" /\ queue # <<>>) ~> (cpc = "pop_unlock")

C3_Witness ==
    /\ cpc = "pop_unlock"
    /\ waited
    /\ spurious = 0

\* C5: non-blocking push. No producer is ever in the wait set, the append of
\* push is enabled whatever the queue holds, a thread suspended in wait does
\* not own the mutex, and every push that has been called returns.
C5_PushCompletes ==
    /\ [](\A p \in Producers : p \notin cvWaiters)
    /\ [](\A p \in Producers : ppc[p] = "push_append" => ENABLED PushAppend(p))
    /\ [](cpc = "pop_blocked" => mutex # Consumer)
    /\ \A p \in Producers : (ppc[p] = "push_lock") ~> (ppc[p] = "loop")

C5_Witness ==
    /\ cpc = "pop_blocked"
    /\ \E p \in Producers : ppc[p] = "push_unlock"
    /\ Len(queue) >= 2

\* ----------------------------------------------------- Searcher::_buffer
\* std::chrono::duration_cast<std::chrono::seconds>(time - elem.first).count()
DiffSeconds(time, stamp) == (time - stamp) \div TicksPerSec

\* a predicate that spares the entry whose age equals the delay
IsExpiredStrict(time, elem) == DiffSeconds(time, elem[1]) > Delay

\* the find_if predicate of remove_expired
IsExpired(time, elem) == DiffSeconds(time, elem[1]) >= Delay

\* std::find_if over _buffer from begin(): index of the first expired
\* element, Len + 1 for end()
FirstExpired(buf, time) ==
    IF \E i \in 1..Len(buf) : IsExpired(time, buf[i])
    THEN CHOOSE i \in 1..Len(buf) :
            /\ IsExpired(time, buf[i])
            /\ \A j \in 1..(i - 1) : ~IsExpired(time, buf[j])
    ELSE Len(buf) + 1

\* an erase of the first expired entry alone
EraseOne(buf, i) == SubSeq(buf, 1, i - 1) \o SubSeq(buf, i + 1, Len(buf))

\* _buffer.erase(first_expired, _buffer.end())
EraseFrom(buf, i) == SubSeq(buf, 1, i - 1)

\* a remove_expired that erases nothing
RemoveExpiredNever(buf, time) == buf

\* remove_expired with the clock value it read
RemoveExpired(buf, time) ==
    LET first_expired == FirstExpired(buf, time)
    IN  IF first_expired # Len(buf) + 1 THEN EraseFrom(buf, first_expired)
        ELSE buf

\* a score that compares the logins alone
ScoreLoginOnly(msg, elem) == IF msg.login = elem[2].login THEN 1 ELSE 0

\* score = (msg.login == login) + (msg.phone_number == phone_number)
Score(msg, elem) ==
    (IF msg.login = elem[2].login THEN 1 ELSE 0)
    + (IF msg.phone_number = elem[2].phone_number THEN 1 ELSE 0)

\* a comparison that keeps the first candidate whatever follows
ImprovesOnce(score, max_score) == score > 0 /\ max_score = 0

\* a comparison that lets an equal score displace the candidate
ImprovesOrEqual(score, max_score) == score > 0 /\ score >= max_score

\* if (score > max_score)
Improves(score, max_score) == score > max_score

\* max_score = true
NewMaxScore(score) == 1

\* the loop of search from rbegin() to rend(): it is the index the reverse
\* iterator stands on, best the index of best_candidate (0 for end())
RECURSIVE SearchLoop(_, _, _, _, _)
SearchLoop(buf, msg, it, max_score, best) ==
    IF it = 0 THEN best
    ELSE LET score == Score(msg, buf[it])
         IN  IF Improves(score, max_score)
             THEN SearchLoop(buf, msg, it - 1, NewMaxScore(score), it)
             ELSE SearchLoop(buf, msg, it - 1, max_score, best)

\* search, after its call of remove_expired
Search(buf, msg) == SearchLoop(buf, msg, Len(buf), 0, 0)

\* an erase of the match and of everything behind it
EraseAtToEnd(buf, i) == SubSeq(buf, 1, i - 1)

\* _buffer.erase(found_it)
EraseAt(buf, i) == SubSeq(buf, 1, i - 1) \o SubSeq(buf, i + 1, Len(buf))

\* an insertion at the back
EmplaceBack(buf, time, msg) == buf \o <<<<time, msg>>>>

\* an insertion that drops the record
EmplaceDrop(buf, time, msg) == buf

\* _buffer.emplace_front(time, msg)
EmplaceFront(buf, time, msg) == <<<<time, msg>>>> \o buf

\* ------------------------------------------------------- Searcher thread
\* an empty() whose answer has nothing to do with the queue
EmptyAny == BOOLEAN

\* Container::empty reads _container without the mutex: while a producer is
\* inside push the read races with its write and may see either state
EmptyResults ==
    IF \E p \in Producers : mutex = p THEN BOOLEAN ELSE {queue = <<>>}

\* while (!_terminate_flag)
SearcherLoop ==
    /\ cpc = "loop"
    /\ cpc' = IF terminate THEN "done" ELSE "empty"
    /\ UNCHANGED <<containerVars, producerVars, cret, cmsg, ctime, etime,
                   found, buffer, clock, mainVars, historyVars>>

\* if (!_container.empty()) ... _container.pop()
SearcherEmpty ==
    /\ cpc = "empty"
    /\ \E e \in EmptyResults :
          IF e THEN cpc' = "loop" /\ cret' = cret
          ELSE cpc' = "pop_lock" /\ cret' = "time"
    /\ waited' = FALSE
    /\ UNCHANGED <<containerVars, producerVars, cmsg, ctime, etime, found,
                   buffer, clock, mainVars, calls, pushed, popped, nExpired,
                   nErased, nMatched, ids, expiredIds>>

\* auto time = std::chrono::steady_clock::now()
SearcherTime ==
    /\ cpc = "time"
    /\ ctime' = clock
    /\ cpc' = "expire"
    /\ UNCHANGED <<containerVars, producerVars, cret, cmsg, etime, found,
                   buffer, clock, mainVars, historyVars>>

\* search: remove_expired(), which reads the clock itself
SearcherExpire ==
    /\ cpc = "expire"
    /\ etime' = clock
    /\ buffer' = RemoveExpired(buffer, clock)
    /\ nErased' = Len(buffer) - Len(buffer')
    /\ nExpired' = nExpired + nErased'
    /\ ids' = SubSeq(ids, 1, Len(buffer'))
    /\ expiredIds' =
          expiredIds \cup {ids[i] : i \in (Len(buffer') + 1)..Len(ids)}
    /\ cpc' = "search"
    /\ UNCHANGED <<containerVars, producerVars, cret, cmsg, ctime, found,
                   clock, mainVars, calls, pushed, popped, nMatched, waited>>

\* search: the scan for the best candidate
SearcherSearch ==
    /\ cpc = "search"
    /\ found' = Search(buffer, cmsg)
    /\ cpc' = "resolve"
    /\ UNCHANGED <<containerVars, producerVars, cret, cmsg, ctime, etime,
                   buffer, clock, mainVars, historyVars>>

\* if (found_it != _buffer.end()) erase the match else emplace_front; the
\* iteration ends and its locals msg, time and found_it go out of scope
SearcherResolve ==
    /\ cpc = "resolve"
    /\ IF found # 0
       THEN /\ buffer' = EraseAt(buffer, found)
            /\ ids' = EraseAt(ids, found)
            /\ nMatched' = nMatched + 1
       ELSE /\ buffer' = EmplaceFront(buffer, ctime, cmsg)
            /\ ids' = <<Len(popped)>> \o ids
            /\ nMatched' = nMatched
    /\ cmsg' = CHOOSE m \in Messages : TRUE
    /\ ctime' = 0
    /\ etime' = 0
    /\ found' = 0
    /\ cpc' = "loop"
    /\ UNCHANGED <<containerVars, producerVars, cret, clock, mainVars, calls,
                   pushed, popped, nExpired, nErased, waited, expiredIds>>

Searcher ==
    \/ SearcherLoop
    \/ SearcherEmpty
    \/ Pop
    \/ SearcherTime
    \/ SearcherExpire
    \/ SearcherSearch
    \/ SearcherResolve

\* std::chrono::steady_clock advances
Tick ==
    /\ clock < MaxClock
    /\ clock' = clock + 1
    /\ UNCHANGED <<containerVars, producerVars, consumerVars, mainVars,
                   historyVars>>

\* ------------------------------------------------------------------ main
\* ~Searcher: _terminate_flag = true
SearcherStop ==
    /\ mpc = "sleep"
    /\ terminate' = TRUE
    /\ mpc' = "join_searcher"
    /\ UNCHANGED <<containerVars, producerVars, consumerVars, clock,
                   genTerminate, historyVars>>

\* a join that returns while the thread still runs
ThreadJoinedAlways(pc) == TRUE

\* std::thread::join returns once the thread function has returned
ThreadJoined(pc) == pc = "done"

\* ~Searcher: _thread.join()
SearcherJoin ==
    /\ mpc = "join_searcher"
    /\ ThreadJoined(cpc)
    /\ mpc' = "stop_generator"
    /\ UNCHANGED <<containerVars, producerVars, consumerVars, clock,
                   terminate, genTerminate, historyVars>>

\* ~Generator: _terminate_flag = true
GeneratorStop ==
    /\ mpc = "stop_generator"
    /\ genTerminate' = TRUE
    /\ mpc' = "join_generator"
    /\ UNCHANGED <<containerVars, producerVars, consumerVars, clock,
                   terminate, historyVars>>

\* ~Generator: _thread.join()
GeneratorJoin ==
    /\ mpc = "join_generator"
    /\ \A p \in Generators : ThreadJoined(ppc[p])
    /\ mpc' = "exit"
    /\ UNCHANGED <<containerVars, producerVars, consumerVars, clock,
                   terminate, genTerminate, historyVars>>

Main ==
    \/ SearcherStop
    \/ SearcherJoin
    \/ GeneratorStop
    \/ GeneratorJoin

Next ==
    \/ \E p \in Generators : Producer(p)
    \/ Searcher
    \/ Tick
    \/ Main

Spec == Init /\ [][Next]_vars

\* the program while main sleeps: the 50 seconds of main are more than
\* MaxClock, so within the clock's range no destructor runs
NextRun ==
    \/ \E p \in Generators : Producer(p)
    \/ Searcher
    \/ Tick

SpecRun == Init /\ [][NextRun]_vars

\* the program on a clock that stands still during the run, every thread
\* being scheduled while it can take a step inside push, inside the Searcher
\* loop or at the join of ~Searcher; the Generator need not push again
NextStill ==
    \/ \E p \in Generators : Producer(p)
    \/ Searcher
    \/ Main

LiveSpec ==
    /\ Init /\ [][NextStill]_vars
    /\ \A p \in Generators : WF_vars(PushSteps(p))
    /\ WF_vars(Searcher)
    /\ WF_vars(SearcherJoin)

\* the same with NumProducers threads pushing into the Container
NextPool ==
    \/ \E p \in Producers : Producer(p)
    \/ Searcher
    \/ Main

LivePool ==
    /\ Init /\ [][NextPool]_vars
    /\ \A p \in Producers : WF_vars(PushSteps(p))
    /\ WF_vars(Searcher)
    /\ WF_vars(SearcherJoin)

\* ---------------------------------------------- search on arbitrary buffers
ArbEntries == {<<0, m>> : m \in Messages}

ArbBuffers == UNION {[1..n -> ArbEntries] : n \in 0..MaxBuf}

\* the Searcher about to scan an arbitrary _buffer for an arbitrary msg
InitSearch ==
    /\ queue = <<>>
    /\ mutex = NoThread
    /\ cvWaiters = {}
    /\ spurious = 0
    /\ ppc = [p \in Producers |-> "loop"]
    /\ pmsg = [p \in Producers |-> CHOOSE m \in Messages : TRUE]
    /\ nPush = 0
    /\ cpc = "search"
    /\ cret = "time"
    /\ cmsg \in Messages
    /\ ctime = 0
    /\ etime = 0
    /\ found = 0
    /\ buffer \in ArbBuffers
    /\ clock = 0
    /\ terminate = FALSE
    /\ genTerminate = FALSE
    /\ mpc = "sleep"
    /\ calls = <<>>
    /\ pushed = <<>>
    /\ popped = <<>>
    /\ nExpired = 0
    /\ nErased = 0
    /\ nMatched = 0
    /\ waited = FALSE
    /\ ids = [i \in 1..Len(buffer) |-> i]
    /\ expiredIds = {}

NextSearch == SearcherSearch

SpecSearch == InitSearch /\ [][NextSearch]_vars

\* ------------------------------------------------- properties, continued
\* C4: every access to the queue is made under the mutex. A producer writes
\* the queue at its append; the consumer reads or writes it in the predicate
\* of wait, at front()/pop() and in empty(). No two threads access it at once.
C4_Serialized ==
    /\ \A p \in Producers : ppc[p] = "push_append" => mutex = p
    /\ cpc \in {"pop_wait", "pop_take", "empty"} => mutex = Consumer
    /\ ~(cpc \in {"pop_wait", "pop_take", "empty"}
         /\ \E p \in Producers : ppc[p] = "push_append")

\* C6: expiry order. The arrival timestamps of _buffer never increase from
\* front to back.
C6_ExpiryOrder ==
    \A i, j \in 1..Len(buffer) : i < j => buffer[i][1] >= buffer[j][1]

C6_Witness ==
    /\ Len(buffer) >= 2
    /\ buffer[1][1] > buffer[2][1]
    /\ nExpired >= 1

\* whole seconds between two clock values
AgeSeconds(now, stamp) ==
    CHOOSE n \in 0..MaxClock :
        n * TicksPerSec <= now - stamp /\ now - stamp < (n + 1) * TicksPerSec

KeepFresh(buf, now) ==
    LET Fresh(e) == AgeSeconds(now, e[1]) < Delay IN SelectSeq(buf, Fresh)

\* C7: cut point. remove_expired leaves exactly the entries younger than
\* Delay whole seconds at the clock value it read, in their order, and erases
\* all the others.
C7_CutPoint ==
    [][cpc = "expire" /\ cpc' = "search"
          => buffer' = KeepFresh(buffer, clock)]_vars

C7_Witness ==
    /\ cpc = "search"
    /\ nErased >= 1
    /\ buffer # <<>>

\* the number of fields of an entry equal to those of msg
EqualFields(msg, elem) ==
    Cardinality({f \in {"login", "phone_number"} : msg[f] = elem[2][f]})

MaxEqualFields(msg, buf) ==
    CHOOSE n \in 0..2 :
        /\ \A i \in 1..Len(buf) : EqualFields(msg, buf[i]) <= n
        /\ n = 0 \/ \E i \in 1..Len(buf) : EqualFields(msg, buf[i]) = n

\* C8: maximum score. search returns end() exactly when every entry scores 0,
\* and otherwise an entry whose score is the greatest score in _buffer.
C8_MaxScore ==
    cpc = "resolve" =>
        /\ found \in 0..Len(buffer)
        /\ found = 0 <=> MaxEqualFields(cmsg, buffer) = 0
        /\ found # 0 =>
              EqualFields(cmsg, buffer[found]) = MaxEqualFields(cmsg, buffer)

C8_Witness ==
    /\ cpc = "resolve"
    /\ found # 0
    /\ EqualFields(cmsg, buffer[found]) = 2
    /\ \E i \in (found + 1)..Len(buffer) : EqualFields(cmsg, buffer[i]) = 1

\* C9: oldest wins. Among the entries tied at the maximum score, search
\* returns the one closest to the back of _buffer.
C9_OldestWins ==
    cpc = "resolve" /\ found # 0 =>
        \A i \in 1..Len(buffer) :
            EqualFields(cmsg, buffer[i]) = MaxEqualFields(cmsg, buffer)
                => i <= found

\* C10: match removes, non-match inserts. The scan leaves _buffer as the
\* expiry phase left it; then a match erases the entry found and nothing
\* else, and a non-match puts msg in front of the entries and nothing else.
C10_Resolve ==
    /\ [][cpc = "search" => buffer' = buffer]_vars
    /\ [][cpc = "resolve" /\ cpc' # cpc =>
            IF found # 0
            THEN /\ Len(buffer') = Len(buffer) - 1
                 /\ \A i \in 1..(found - 1) : buffer'[i] = buffer[i]
                 /\ \A i \in (found + 1)..Len(buffer) :
                        buffer'[i - 1] = buffer[i]
            ELSE /\ Len(buffer') = Len(buffer) + 1
                 /\ buffer'[1][2] = cmsg
                 /\ \A i \in 1..Len(buffer) : buffer'[i + 1] = buffer[i]]_vars

C10_Witness ==
    /\ cpc = "loop"
    /\ nMatched >= 1
    /\ buffer # <<>>

\* C11: shutdown terminates. Once _terminate_flag of the Searcher is set, its
\* thread leaves the loop and the join of ~Searcher returns, whatever the
\* queue holds and whether or not the Generator pushes again.
C11_ShutdownTerminates ==
    /\ terminate ~> (cpc = "done")
    /\ terminate ~> (mpc \notin {"sleep", "join_searcher"})

C11_Witness ==
    /\ mpc = "stop_generator"
    /\ cpc = "done"
    /\ queue # <<>>
    /\ nPush < MaxPush

\* C12: quiescence after stop. Once the join of ~Searcher has returned, no
\* step pops a Message, changes _buffer or reports an expiry or a match.
C12_Quiescence ==
    [][mpc \notin {"sleep", "join_searcher"} =>
          /\ cpc' = cpc
          /\ popped' = popped
          /\ buffer' = buffer
          /\ nExpired' = nExpired
          /\ nMatched' = nMatched]_vars

C12_Witness ==
    /\ mpc = "stop_generator"
    /\ buffer # <<>>
    /\ queue # <<>>
    /\ ppc[1] = "push_append"

\* C13 as stated: in every state no entry of _buffer has reached the age of
\* Delay seconds on the current clock.
C13_MaxAge ==
    \A i \in 1..Len(buffer) : AgeSeconds(clock, buffer[i][1]) < Delay

\* C13 as amended: when remove_expired has run in a pipeline step, no entry of
\* _buffer has reached the age of Delay seconds on the clock value
\* remove_expired read.
C13_FreshAfterExpiry ==
    cpc \in {"search", "resolve"} =>
        \A i \in 1..Len(buffer) : AgeSeconds(etime, buffer[i][1]) < Delay

C13_Witness ==
    /\ cpc = "resolve"
    /\ buffer # <<>>
    /\ AgeSeconds(clock, buffer[Len(buffer)][1]) >= Delay

\* C14: single snapshot of now. The clock value remove_expired decides with
\* is the value the step stores as the arrival time of msg.
C14_SingleSnapshot ==
    cpc \in {"search", "resolve"} => etime = ctime

\* C15: expire before match. The entry search returns is in _buffer as
\* remove_expired left it, is younger than Delay seconds on the clock value
\* remove_expired read, and has never been erased as expired.
C15_ExpireBeforeMatch ==
    /\ Len(ids) = Len(buffer)
    /\ cpc = "resolve" /\ found # 0 =>
          /\ found \in 1..Len(buffer)
          /\ AgeSeconds(etime, buffer[found][1]) < Delay
          /\ ids[found] \notin expiredIds

C15_Witness ==
    /\ cpc = "resolve"
    /\ found # 0
    /\ nErased >= 1

\* the distinct values of a field among the Messages popped so far
SeenValues(f) == {popped[k][f] : k \in 1..Len(popped)}

\* C16: pairwise-disjoint pending entries. No two entries of _buffer have the
\* same phone number or the same login, and _buffer is no longer than the
\* number of distinct phone numbers, or of distinct logins, popped so far.
C16_Disjoint ==
    /\ \A i, j \in 1..Len(buffer) :
          i # j => EqualFields(buffer[i][2], buffer[j]) = 0
    /\ Len(buffer) <= Cardinality(SeenValues("phone_number"))
    /\ Len(buffer) <= Cardinality(SeenValues("login"))

C16_Witness ==
    /\ cpc = "loop"
    /\ Len(buffer) = 2
    /\ Len(popped) = 3

\* a search that keeps the score of its candidate: the greatest score, the
\* oldest among the entries tied at it, 0 for end()
RefSearch(buf, msg) ==
    IF MaxEqualFields(msg, buf) = 0 THEN 0
    ELSE CHOOSE i \in 1..Len(buf) :
            /\ EqualFields(msg, buf[i]) = MaxEqualFields(msg, buf)
            /\ \A j \in (i + 1)..Len(buf) :
                  EqualFields(msg, buf[j]) < MaxEqualFields(msg, buf)

\* C17: max_score = true is unobservable. On every reachable _buffer and for
\* every msg, search returns the entry the search that keeps the score returns.
C17_SameAsReference ==
    \A m \in Messages : Search(buffer, m) = RefSearch(buffer, m)

C17_Witness ==
    /\ cpc = "resolve"
    /\ found # 0
    /\ Len(buffer) >= 2
    /\ EqualFields(cmsg, buffer[found]) = 2

\* the consumer is between two pipeline steps
BetweenSteps ==
    cpc \in {"loop", "empty", "pop_lock", "pop_wait", "pop_blocked",
             "pop_take", "done"}

\* C18: record conservation. Between pipeline steps every popped Message is
\* pending, or was erased as expired, or was one of the two sides of a match.
C18_Conservation ==
    BetweenSteps =>
        /\ Len(popped) = Len(buffer) + nExpired + 2 * nMatched
        /\ Cardinality(expiredIds) = nExpired
        /\ \A i \in 1..Len(ids) : ids[i] \notin expiredIds
        /\ \A i, j \in 1..Len(ids) : i # j => ids[i] # ids[j]

C18_Witness ==
    /\ cpc = "loop"
    /\ nMatched >= 1
    /\ nExpired >= 1

\* C19: the Searcher never blocks in pop. When its pop owns the mutex the
\* queue is not empty, it never suspends in wait, and it is back at the test
\* of _terminate_flag again and again.
C19_NeverBlocks ==
    /\ [](cpc = "pop_wait" => queue # <<>>)
    /\ [](cpc # "pop_blocked" /\ ~waited /\ cvWaiters = {})
    /\ []<>(cpc \in {"loop", "done"})

C19_Witness ==
    /\ cpc = "pop_wait"
    /\ Len(queue) >= 2
    /\ \E p \in Producers : ppc[p] = "push_lock"
    /\ \E i, j \in 1..Len(calls) : calls[i][1] # calls[j][1]

====
